---- MODULE Spec2Model ----
(***************************************************************************)
(* A model of the yatp scenario parser (src/src/parsers.ts and the entry   *)
(* point parse of src/src/commands.ts).  A text is a sequence of           *)
(* one-character strings; cursors are 0-based as in the source.            *)
(***************************************************************************)
EXTENDS Integers, Sequences, FiniteSets, TLC

VARIABLES text, pc, index, context, contexts, tried, ret, result,
          callee, cursor, out

vars == <<text, pc, index, context, contexts, tried, ret, result,
          callee, cursor, out>>

----------------------------------------------------------------------------
(* Bounds of the model.                                                    *)

MaxLen == 3
MaxTagLen == 5
MaxBlockLen == 6
MaxPush == 3
MaxDeclLen == 6
MaxLabelLen == 4
MaxParamLen == 6
MaxSingleLen == 4
MaxInterior == 7
MaxNameLen == 4
MaxBareLen == 4
MaxIdentLen == 4
MaxQuoteLen == 4
MaxKVLen == 6
MaxSoftLen == 4

----------------------------------------------------------------------------
(* Characters.                                                             *)

NL == "\n"
TAB == "\t"
WIDESPACE == "wide-space"
BACKTICK == "backtick"

Letter == {"a", "b", "k", "v"}
Digit == {"1", "7"}
Whitespace == {" ", TAB, NL, WIDESPACE}

Alphabet == {";", "/", "*", NL, "#", "@", "[", "]", "a", " "}
TagAlphabet == {"[", "]", "a", NL, " "}
BlockAlphabet == {"/", "*", NL}
DeclAlphabet == {"#", ":", "a", NL}
LabelAlphabet == {"*", "|", "a", "1", " ", NL}
ParamAlphabet == {"@", "a", " ", "="}
SingleAlphabet == {"@", "a", "_", "1", " ", NL}
InteriorAlphabet == {"a", "=", NL}
NameAlphabet == {"[", "]", "a", "1", " ", NL}
BareAlphabet == {"_", "a", " ", NL}
IdentAlphabet == {"a", "_", "1", "-"}
QuoteAlphabet == {"'", "\"", BACKTICK, "a"}
KVAlphabet == {"a", "=", "\"", " "}
SoftAlphabet == {"#", "[", "]", "'", "a"}

RECURSIVE Texts(_, _)
Texts(alphabet, n) ==
  IF n = 0 THEN {<< >>}
  ELSE LET shorter == Texts(alphabet, n - 1)
       IN  shorter \cup {Append(s, c) : s \in {u \in shorter : Len(u) = n - 1},
                                        c \in alphabet}

----------------------------------------------------------------------------
(* The string primitives of JavaScript the parser uses.                    *)

Min(a, b) == IF a < b THEN a ELSE b
Max(a, b) == IF a > b THEN a ELSE b

\* String.prototype.slice(from, to): negative arguments count from the end.
Slice(s, from, to) ==
  LET n == Len(s)
      f == IF from < 0 THEN Max(n + from, 0) ELSE Min(from, n)
      t == IF to < 0 THEN Max(n + to, 0) ELSE Min(to, n)
  IN  IF f >= t THEN << >> ELSE SubSeq(s, f + 1, t)

\* String.prototype.slice(from)
SliceFrom(s, from) == Slice(s, from, Len(s))

\* String.prototype.startsWith(prefix)
StartsWith(s, prefix) ==
  /\ Len(prefix) <= Len(s)
  /\ SubSeq(s, 1, Len(prefix)) = prefix

\* String.prototype.indexOf(needle) and search of a literal: 0-based, -1 if none
IndexOf(s, needle) ==
  LET hits == {i \in 0..(Len(s) - Len(needle)) :
                 SubSeq(s, i + 1, i + Len(needle)) = needle}
  IN  IF hits = {} THEN -1 ELSE CHOOSE i \in hits : \A j \in hits : i <= j

\* String.prototype.includes(needle)
Includes(s, needle) == IndexOf(s, needle) >= 0

\* String.prototype.search of a one-character class: first 0-based position
\* whose character is in (or, when negated, not in) the class
SearchClass(s, class, negated) ==
  LET hits == {i \in 0..(Len(s) - 1) : (s[i + 1] \in class) # negated}
  IN  IF hits = {} THEN -1 ELSE CHOOSE i \in hits : \A j \in hits : i <= j

\* text.split(/\n/, 1)[0]: the text up to, not including, the first line break
FirstLine(s) ==
  LET k == IndexOf(s, <<NL>>)
  IN  IF k < 0 THEN s ELSE Slice(s, 0, k)

\* String.prototype.split(separator): the pieces between the separators
RECURSIVE Split(_, _)
Split(s, sep) ==
  LET k == IndexOf(s, <<sep>>)
  IN  IF k < 0 THEN <<s>>
      ELSE <<Slice(s, 0, k)>> \o Split(SliceFrom(s, k + 1), sep)

\* the length of the longest prefix made of characters of the class
RECURSIVE PrefixLen(_, _)
PrefixLen(s, class) ==
  IF Len(s) = 0 \/ s[1] \notin class THEN 0
  ELSE 1 + PrefixLen(Tail(s), class)

\* String.prototype.trimEnd()
RECURSIVE TrimEnd(_)
TrimEnd(s) ==
  IF Len(s) = 0 \/ s[Len(s)] \notin Whitespace THEN s
  ELSE TrimEnd(SubSeq(s, 1, Len(s) - 1))

\* String.prototype.trim()
Trim(s) == TrimEnd(SliceFrom(s, PrefixLen(s, Whitespace)))

\* String.prototype.replace(/\n/g, " ")
ReplaceAllNL(s) == [i \in 1..Len(s) |-> IF s[i] = NL THEN " " ELSE s[i]]

\* String.prototype.replace("\n", " "): only the first occurrence
ReplaceFirstNL(s) ==
  LET k == IndexOf(s, <<NL>>)
  IN  [i \in 1..Len(s) |-> IF i = k + 1 THEN " " ELSE s[i]]

\* String.prototype.replace(/\s/g, "")
RECURSIVE RemoveWhitespace(_)
RemoveWhitespace(s) ==
  IF Len(s) = 0 THEN << >>
  ELSE IF s[1] \in Whitespace THEN RemoveWhitespace(Tail(s))
  ELSE <<s[1]>> \o RemoveWhitespace(Tail(s))

\* String.prototype.at(n): the character at n, counted from the end when n
\* is negative, undefined outside the string
At(s, n) ==
  LET k == IF n < 0 THEN Len(s) + n ELSE n
  IN  IF k >= 0 /\ k < Len(s) THEN s[k + 1] ELSE "undefined"

\* s.match(/^[a-zA-Z_]+/)?.[0]: the matched prefix, Undefined when none
Undefined == <<"undefined">>
MatchName(s) ==
  LET n == PrefixLen(s, Letter \cup {"_"})
  IN  IF n = 0 THEN Undefined ELSE Slice(s, 0, n)

----------------------------------------------------------------------------
(* Nodes and the two failure values.  A recognizer returns a context: a    *)
(* record of the node and the index to continue parsing from.              *)

\* new InvalidSyntax(text, index): the HardFail value
InvalidSyntax(t, i) == [type |-> "invalid-syntax", raw |-> SliceFrom(t, i)]

\* new FailingParsing(text, index): the SoftFail value
FailingParsing(t, i) == [type |-> "failing-parsing", raw |-> SliceFrom(t, i)]

\* a runtime exception escaping a recognizer instead of a returned context
Thrown == [node |-> [type |-> "TypeError", raw |-> << >>], index |-> -1]

IsSoftFail(c) == c.node.type = "failing-parsing"
IsHardFail(c) == c.node.type = "invalid-syntax"
IsThrown(c) == c.node.type = "TypeError"
IsSuccess(c) == ~IsSoftFail(c) /\ ~IsHardFail(c) /\ ~IsThrown(c)

----------------------------------------------------------------------------
(* The primitive recognizers.                                              *)

\* parseEmpty with the test of its guard weakened from "or" to "and"
parseEmptyLoose(t, i) ==
  IF i # 0 /\ Len(t) # 0
  THEN [node |-> FailingParsing(t, i), index |-> i]
  ELSE [node |-> [type |-> "empty", raw |-> << >>], index |-> 0]

parseEmpty(t, i) ==
  IF i # 0 \/ Len(t) # 0
  THEN [node |-> FailingParsing(t, i), index |-> i]
  ELSE [node |-> [type |-> "empty", raw |-> << >>], index |-> 0]

\* parseIdentifier continuing the name with letters and underscores only
parseIdentifierNoDigits(t, prev) ==
  LET rest == SliceFrom(t, prev)
      n == PrefixLen(rest, Letter \cup {"_"})
      nextIndex == prev + n
  IN  IF n = 0
      THEN [node |-> InvalidSyntax(t, prev), index |-> prev]
      ELSE [node |-> [type |-> "identifier",
                      raw |-> Slice(t, prev, nextIndex),
                      value |-> Slice(rest, 0, n)],
            index |-> nextIndex]

parseIdentifier(t, prev) ==
  LET rest == SliceFrom(t, prev)
      n == IF Len(rest) > 0 /\ rest[1] \in Letter \cup {"_"}
           THEN 1 + PrefixLen(Tail(rest), Letter \cup Digit \cup {"_"})
           ELSE 0
      nextIndex == prev + n
  IN  IF n = 0
      THEN [node |-> InvalidSyntax(t, prev), index |-> prev]
      ELSE [node |-> [type |-> "identifier",
                      raw |-> Slice(t, prev, nextIndex),
                      value |-> Slice(rest, 0, n)],
            index |-> nextIndex]

\* parseQuotedString reporting the unterminated string as a HardFail
parseQuotedStringHard(t, curr) ==
  IF curr >= Len(t) THEN Thrown    \* text[index] is undefined: mark.search throws
  ELSE
  LET mark == t[curr + 1]
      isMark == mark \in {"'", "\""}
      indexToStartQuoting == curr + 1
      offsetToEndQuote == IndexOf(SliceFrom(t, indexToStartQuoting), <<mark>>)
      body == Slice(t, indexToStartQuoting, indexToStartQuoting + offsetToEndQuote)
      indexToEndQuoteBody == indexToStartQuoting + (offsetToEndQuote + 1)
      indexToEndQuoting == indexToEndQuoteBody + 1
  IN  IF ~isMark THEN [node |-> FailingParsing(t, curr), index |-> curr]
      ELSE IF offsetToEndQuote < 0
      THEN [node |-> InvalidSyntax(t, curr), index |-> curr]
      ELSE IF body = << >>
      THEN [node |-> [type |-> "quoted-string", raw |-> <<mark, mark>>,
                      children |-> <<[type |-> "undefined"]>>],
            index |-> indexToStartQuoting]
      ELSE [node |-> [type |-> "quoted-string",
                      raw |-> <<mark>> \o body \o <<mark>>,
                      value |-> body],
            index |-> curr + (indexToEndQuoting - indexToStartQuoting)]

\* parseQuotedString keeping the cursor after the opening mark when the
\* string is unterminated
parseQuotedStringConsuming(t, curr) ==
  IF curr >= Len(t) THEN Thrown    \* text[index] is undefined: mark.search throws
  ELSE
  LET mark == t[curr + 1]
      isMark == mark \in {"'", "\""}
      indexToStartQuoting == curr + 1
      offsetToEndQuote == IndexOf(SliceFrom(t, indexToStartQuoting), <<mark>>)
      body == Slice(t, indexToStartQuoting, indexToStartQuoting + offsetToEndQuote)
      indexToEndQuoteBody == indexToStartQuoting + (offsetToEndQuote + 1)
      indexToEndQuoting == indexToEndQuoteBody + 1
  IN  IF ~isMark THEN [node |-> FailingParsing(t, curr), index |-> curr]
      ELSE IF offsetToEndQuote < 0
      THEN [node |-> FailingParsing(t, curr), index |-> indexToStartQuoting]
      ELSE IF body = << >>
      THEN [node |-> [type |-> "quoted-string", raw |-> <<mark, mark>>,
                      children |-> <<[type |-> "undefined"]>>],
            index |-> indexToStartQuoting]
      ELSE [node |-> [type |-> "quoted-string",
                      raw |-> <<mark>> \o body \o <<mark>>,
                      value |-> body],
            index |-> curr + (indexToEndQuoting - indexToStartQuoting)]

parseQuotedString(t, curr) ==
  IF curr >= Len(t) THEN Thrown    \* text[index] is undefined: mark.search throws
  ELSE
  LET mark == t[curr + 1]
      isMark == mark \in {"'", "\""}
      indexToStartQuoting == curr + 1
      offsetToEndQuote == IndexOf(SliceFrom(t, indexToStartQuoting), <<mark>>)
      body == Slice(t, indexToStartQuoting, indexToStartQuoting + offsetToEndQuote)
      indexToEndQuoteBody == indexToStartQuoting + (offsetToEndQuote + 1)
      indexToEndQuoting == indexToEndQuoteBody + 1
  IN  IF ~isMark THEN [node |-> FailingParsing(t, curr), index |-> curr]
      ELSE IF offsetToEndQuote < 0
      THEN [node |-> FailingParsing(t, curr), index |-> curr]
      ELSE IF body = << >>
      THEN [node |-> [type |-> "quoted-string", raw |-> <<mark, mark>>,
                      children |-> <<[type |-> "undefined"]>>],
            index |-> indexToStartQuoting]
      ELSE [node |-> [type |-> "quoted-string",
                      raw |-> <<mark>> \o body \o <<mark>>,
                      value |-> body],
            index |-> curr + (indexToEndQuoting - indexToStartQuoting)]

----------------------------------------------------------------------------
(* The line-level recognizers.                                             *)

\* parseLineComment returning the cursor at the line terminator, not past it
parseLineCommentAtTerminator(t, prev) ==
  LET line == FirstLine(SliceFrom(t, prev))
  IN  IF ~StartsWith(line, <<";">>)
      THEN [node |-> FailingParsing(t, prev), index |-> prev]
      ELSE [node |-> [type |-> "line-comment",
                      raw |-> SliceFrom(line, 1),
                      value |-> SliceFrom(line, 1)],
            index |-> prev + Len(line)]

parseLineComment(t, prev) ==
  LET line == FirstLine(SliceFrom(t, prev))
  IN  IF ~StartsWith(line, <<";">>)
      THEN [node |-> FailingParsing(t, prev), index |-> prev]
      ELSE [node |-> [type |-> "line-comment",
                      raw |-> SliceFrom(line, 1),
                      value |-> SliceFrom(line, 1)],
            index |-> prev + Len(line) + 1]

parseBlockComment(t, i) ==
  LET textOfInterest == SliceFrom(t, i)
      indexOfClosingBlock == IndexOf(textOfInterest, <<"*", "/">>)
      textMatched == Slice(textOfInterest, 0, indexOfClosingBlock + 2)
  IN  IF ~StartsWith(textOfInterest, <<"/", "*">>)
      THEN [node |-> FailingParsing(t, i), index |-> i]
      ELSE IF indexOfClosingBlock < 0
      THEN [node |-> InvalidSyntax(t, i), index |-> i]
      ELSE IF ~Includes(textMatched, <<NL>>)
      THEN [node |-> InvalidSyntax(t, i), index |-> i]
      ELSE [node |-> [type |-> "block-comment",
                      raw |-> textMatched,
                      value |-> Slice(textMatched, 2, -2)],
            index |-> i + Len(textMatched)]

\* parseNarratorDeclaration without the test for more than one colon: the
\* pieces after the second colon are dropped
parseNarratorDeclarationTruncating(t, prev) ==
  LET lineOfInterest == FirstLine(SliceFrom(t, prev))
      curr == prev + Len(lineOfInterest)
      parts == Split(SliceFrom(lineOfInterest, 1), ":")
      narrative == Head(parts)
      adjectives == Tail(parts)
      emotion == IF Len(adjectives) >= 1 THEN adjectives[1] ELSE Undefined
  IN  IF ~StartsWith(lineOfInterest, <<"#">>)
      THEN [node |-> FailingParsing(t, prev), index |-> prev]
      ELSE IF Len(narrative) = 0
      THEN [node |-> InvalidSyntax(t, prev), index |-> curr + 1]
      ELSE IF Len(adjectives) >= 1 /\ Len(adjectives[1]) = 0
      THEN [node |-> InvalidSyntax(t, prev), index |-> curr + 1]
      ELSE [node |-> [type |-> "narrator-declaration",
                      narrative |-> narrative,
                      emotion |-> emotion,
                      raw |-> SliceFrom(lineOfInterest, 1),
                      value |-> narrative],
            index |-> curr + 1]

parseNarratorDeclaration(t, prev) ==
  LET lineOfInterest == FirstLine(SliceFrom(t, prev))
      curr == prev + Len(lineOfInterest)
      parts == Split(SliceFrom(lineOfInterest, 1), ":")
      narrative == Head(parts)
      adjectives == Tail(parts)
      emotion == IF Len(adjectives) = 1 THEN adjectives[1] ELSE Undefined
  IN  IF ~StartsWith(lineOfInterest, <<"#">>)
      THEN [node |-> FailingParsing(t, prev), index |-> prev]
      ELSE IF Len(narrative) = 0
      THEN [node |-> InvalidSyntax(t, prev), index |-> curr + 1]
      ELSE IF Len(adjectives) > 1
      THEN [node |-> InvalidSyntax(t, prev), index |-> curr + 1]
      ELSE IF Len(adjectives) = 1 /\ Len(adjectives[1]) = 0
      THEN [node |-> InvalidSyntax(t, prev), index |-> curr + 1]
      ELSE [node |-> [type |-> "narrator-declaration",
                      narrative |-> narrative,
                      emotion |-> emotion,
                      raw |-> SliceFrom(lineOfInterest, 1),
                      value |-> narrative],
            index |-> curr + 1]

parseNarrative(t, i) ==
  LET lineOfInterest == FirstLine(SliceFrom(t, i))
      nextIndex == i + Len(lineOfInterest)
  IN  IF TrimEnd(lineOfInterest) # <<"#">>
      THEN [node |-> FailingParsing(t, i), index |-> i]
      ELSE [node |-> [type |-> "narrative", raw |-> Slice(t, i, nextIndex)],
            index |-> nextIndex + 1]

\* the inner function of parseLabel that reads the "|alternate" suffix; an
\* InvalidSyntax node when the rest of the line does not start with "|"
parseLabelExtra(line, i) ==
  LET textOfInterest == SliceFrom(line, i)
  IN  IF Len(textOfInterest) = 0
      THEN [type |-> "string-or-undefined", value |-> Undefined]
      ELSE IF ~StartsWith(textOfInterest, <<"|">>)
      THEN InvalidSyntax(line, i + 1)
      ELSE [type |-> "string-or-undefined",
            value |-> MatchName(SliceFrom(textOfInterest, 1))]

parseLabel(t, i) ==
  LET lineOfInterest == FirstLine(SliceFrom(t, i))
      after == i + Len(lineOfInterest) + 1
      label == MatchName(SliceFrom(lineOfInterest, 1))
      extra == parseLabelExtra(lineOfInterest, 1 + Len(label))
  IN  IF ~StartsWith(lineOfInterest, <<"*">>)
      THEN [node |-> FailingParsing(t, i), index |-> i]
      ELSE IF Len(lineOfInterest) = 1
      THEN [node |-> InvalidSyntax(t, i), index |-> after]
      ELSE IF label = Undefined
      THEN [node |-> InvalidSyntax(t, i), index |-> after]
      ELSE IF extra.type = "invalid-syntax"    \* extra instanceof InvalidSyntax
      THEN [node |-> extra, index |-> after]
      ELSE [node |-> [type |-> "label",
                      label |-> label,
                      extra |-> extra.value,
                      raw |-> SliceFrom(lineOfInterest, 1),
                      value |-> label],
            index |-> after]

\* parseSingleLineTag reporting the lone "@" as a SoftFail
parseSingleLineTagSoft(t, prev) ==
  LET lineOfInterest == FirstLine(SliceFrom(t, prev))
      curr == prev + Len(lineOfInterest)
      tag == MatchName(SliceFrom(lineOfInterest, 1))
  IN  IF ~StartsWith(t, <<"@">>)
      THEN [node |-> FailingParsing(t, prev), index |-> prev]
      ELSE IF curr - prev = 1
      THEN [node |-> FailingParsing(t, curr), index |-> curr]
      ELSE IF tag = Undefined
      THEN [node |-> InvalidSyntax(t, curr), index |-> curr]
      ELSE [node |-> [type |-> "single-line-tag",
                      raw |-> SliceFrom(lineOfInterest, 1),
                      tag |-> tag,
                      parameters |-> {},
                      value |-> tag],
            index |-> curr + 1]

parseSingleLineTag(t, prev) ==
  LET lineOfInterest == FirstLine(SliceFrom(t, prev))
      curr == prev + Len(lineOfInterest)
      tag == MatchName(SliceFrom(lineOfInterest, 1))
  IN  IF ~StartsWith(t, <<"@">>)
      THEN [node |-> FailingParsing(t, prev), index |-> prev]
      ELSE IF curr - prev = 1
      THEN [node |-> InvalidSyntax(t, curr), index |-> curr]
      ELSE IF tag = Undefined
      THEN [node |-> InvalidSyntax(t, curr), index |-> curr]
      ELSE [node |-> [type |-> "single-line-tag",
                      raw |-> SliceFrom(lineOfInterest, 1),
                      tag |-> tag,
                      parameters |-> {},
                      value |-> tag],
            index |-> curr + 1]

\* parseParameters(): always the one entry key: "value"
parseParameters == [key |-> <<"v", "a", "l", "u", "e">>]

\* parseMultiLineTag without the scan: the tag name has to follow the
\* opening bracket at once
parseMultiLineTagNoScan(t, prev) ==
  LET indexOfClosingTag == IndexOf(SliceFrom(t, prev), <<"]">>)
      textOfInterest == Slice(t, prev, indexOfClosingTag + 1)
      curr == prev + Len(textOfInterest)
      lineOfInterest == ReplaceAllNL(textOfInterest)
      first == SearchClass(lineOfInterest, {" ", TAB, WIDESPACE}, TRUE)
      \* only the position after the opening bracket is tried
      found == {i \in {first + 1} \cap (0..(Len(lineOfInterest) - 2)) :
                  parseIdentifier(lineOfInterest, i).node.type = "identifier"}
      at == CHOOSE i \in found : \A j \in found : i <= j
      identifier == parseIdentifier(lineOfInterest, at)
      tag == identifier.node.value
      nextIndex == identifier.index
      parameters == {[key |-> <<"n", "o", "d", "e">>,
                      value |-> [type |-> "parameters", key |-> parseParameters.key]]}
  IN  IF ~StartsWith(t, <<"[">>)
      THEN [node |-> FailingParsing(t, prev), index |-> prev]
      ELSE IF indexOfClosingTag < 0
      THEN [node |-> FailingParsing(t, prev), index |-> prev]
      ELSE IF Len(RemoveWhitespace(Slice(lineOfInterest, 1, -1))) = 0
      THEN [node |-> InvalidSyntax(t, prev), index |-> curr]
      ELSE IF found = {}
      THEN [node |-> InvalidSyntax(t, curr), index |-> curr]
      ELSE [node |-> [type |-> "multi-line-tag",
                      raw |-> ReplaceFirstNL(Slice(textOfInterest, 1, -1)),
                      tag |-> tag,
                      parameters |-> parameters,
                      value |-> tag],
            index |-> nextIndex]

parseMultiLineTag(t, prev) ==
  LET indexOfClosingTag == IndexOf(SliceFrom(t, prev), <<"]">>)
      textOfInterest == Slice(t, prev, indexOfClosingTag + 1)
      curr == prev + Len(textOfInterest)
      lineOfInterest == ReplaceAllNL(textOfInterest)
      first == SearchClass(lineOfInterest, {" ", TAB, WIDESPACE}, TRUE)
      \* the positions the for loop visits at which parseIdentifier succeeds
      found == {i \in first..(Len(lineOfInterest) - 2) :
                  parseIdentifier(lineOfInterest, i).node.type = "identifier"}
      at == CHOOSE i \in found : \A j \in found : i <= j
      identifier == parseIdentifier(lineOfInterest, at)
      tag == identifier.node.value
      nextIndex == identifier.index
      parameters == {[key |-> <<"n", "o", "d", "e">>,
                      value |-> [type |-> "parameters", key |-> parseParameters.key]]}
  IN  IF ~StartsWith(t, <<"[">>)
      THEN [node |-> FailingParsing(t, prev), index |-> prev]
      ELSE IF indexOfClosingTag < 0
      THEN [node |-> FailingParsing(t, prev), index |-> prev]
      ELSE IF Len(RemoveWhitespace(Slice(lineOfInterest, 1, -1))) = 0
      THEN [node |-> InvalidSyntax(t, prev), index |-> curr]
      ELSE IF found = {}
      THEN [node |-> InvalidSyntax(t, curr), index |-> curr]
      ELSE [node |-> [type |-> "multi-line-tag",
                      raw |-> ReplaceFirstNL(Slice(textOfInterest, 1, -1)),
                      tag |-> tag,
                      parameters |-> parameters,
                      value |-> tag],
            index |-> nextIndex]

\* The destructuring of the value read after "=" throws a TypeError when the
\* inner function returns a FailingParsing, which is not iterable.
parseKVPair(t, i) ==
  LET indexOfEqualSign == IndexOf(t, <<"=">>)
      key == Slice(t, 0, indexOfEqualSign)
      textAfterEqualSign == SliceFrom(t, indexOfEqualSign + 1)
      indexOfQuote == IndexOf(textAfterEqualSign, <<"\"">>)
      nextIndex == IndexOf(textAfterEqualSign, <<" ">>)
      indexOfQuoteEnd ==
        IndexOf(SliceFrom(textAfterEqualSign, indexOfQuote + 1), <<"\"">>)
      valueBare ==
        IF indexOfQuote < 0
        THEN Slice(textAfterEqualSign, indexOfEqualSign + 1, nextIndex)
        ELSE Slice(textAfterEqualSign, indexOfQuote + 1, indexOfQuoteEnd - 1)
      nextIndexAfterKV == IF indexOfQuote < 0 THEN nextIndex ELSE indexOfQuoteEnd + 1
      valueQuoted == <<"\"">> \o valueBare \o <<"\"">>
  IN  IF indexOfEqualSign < 0
      THEN [node |-> FailingParsing(t, i), index |-> i]
      ELSE IF /\ indexOfQuote >= 0
              /\ (indexOfQuoteEnd < 0 \/ At(textAfterEqualSign, indexOfQuoteEnd + 1) # " ")
      THEN Thrown
      ELSE [node |-> [type |-> "key-value-pair", raw |-> << >>,
                      key |-> key, value |-> valueQuoted],
            index |-> nextIndexAfterKV]

parseBareText(t, prev) ==
  LET curr == prev + Len(t)
  IN  IF Slice(t, prev, prev + 1) = <<"_">>
      THEN [node |-> [type |-> "bare-text", raw |-> Slice(t, prev + 1, curr)],
            index |-> curr + 1]
      ELSE [node |-> [type |-> "bare-text", raw |-> Trim(Slice(t, prev, curr))],
            index |-> curr + 1]

----------------------------------------------------------------------------
(* The ordered alternations of the composer.  Each is given twice: the     *)
(* context it returns, and the contexts returned by the recognizers it     *)
(* invoked on the way, in the order of the calls.                          *)

\* parseScenarioLine trying the narrator declaration before the narrative
parseScenarioLineDeclarationFirst(t, i) ==
  IF parseLabel(t, i).node.type = "label" THEN parseLabel(t, i)
  ELSE IF parseNarratorDeclaration(t, i).node.type = "narrator-declaration"
  THEN parseNarratorDeclaration(t, i)
  ELSE IF parseNarrative(t, i).node.type = "narrative" THEN parseNarrative(t, i)
  ELSE IF parseSingleLineTag(t, i).node.type = "single-line-tag"
  THEN parseSingleLineTag(t, i)
  ELSE [node |-> InvalidSyntax(t, Len(t)), index |-> Len(t)]

parseScenarioLine(t, i) ==
  IF parseLabel(t, i).node.type = "label" THEN parseLabel(t, i)
  ELSE IF parseNarrative(t, i).node.type = "narrative" THEN parseNarrative(t, i)
  ELSE IF parseNarratorDeclaration(t, i).node.type = "narrator-declaration"
  THEN parseNarratorDeclaration(t, i)
  ELSE IF parseSingleLineTag(t, i).node.type = "single-line-tag"
  THEN parseSingleLineTag(t, i)
  ELSE [node |-> InvalidSyntax(t, Len(t)), index |-> Len(t)]

parseScenarioLineCalls(t, i) ==
  IF parseLabel(t, i).node.type = "label" THEN <<parseLabel(t, i)>>
  ELSE IF parseNarrative(t, i).node.type = "narrative"
  THEN <<parseLabel(t, i), parseNarrative(t, i)>>
  ELSE IF parseNarratorDeclaration(t, i).node.type = "narrator-declaration"
  THEN <<parseLabel(t, i), parseNarrative(t, i), parseNarratorDeclaration(t, i)>>
  ELSE <<parseLabel(t, i), parseNarrative(t, i), parseNarratorDeclaration(t, i),
         parseSingleLineTag(t, i)>>

anyContext(t, i) ==
  IF parseLineComment(t, i).node.type = "line-comment" THEN parseLineComment(t, i)
  ELSE IF parseBlockComment(t, i).node.type = "block-comment"
  THEN parseBlockComment(t, i)
  ELSE IF parseMultiLineTag(t, i).node.type = "multi-line-tag"
  THEN parseMultiLineTag(t, i)
  ELSE parseScenarioLine(t, i)

anyContextCalls(t, i) ==
  IF parseLineComment(t, i).node.type = "line-comment"
  THEN <<parseLineComment(t, i)>>
  ELSE IF parseBlockComment(t, i).node.type = "block-comment"
  THEN <<parseLineComment(t, i), parseBlockComment(t, i)>>
  ELSE IF parseMultiLineTag(t, i).node.type = "multi-line-tag"
  THEN <<parseLineComment(t, i), parseBlockComment(t, i), parseMultiLineTag(t, i)>>
  ELSE <<parseLineComment(t, i), parseBlockComment(t, i), parseMultiLineTag(t, i)>>
         \o parseScenarioLineCalls(t, i)

----------------------------------------------------------------------------
(* The state machine.  Either parse(text) runs, through parseScenario and  *)
(* its for loop, or one exported recognizer is called at some cursor.      *)

NoNode == [type |-> "none", raw |-> << >>]
NoContext == [node |-> NoNode, index |-> 0]
InvalidSyntaxError == [type |-> "InvalidSyntaxError", raw |-> << >>]

InitWith(texts) ==
  /\ text \in texts
  /\ pc = "idle"
  /\ index = 0
  /\ context = NoContext
  /\ contexts = << >>
  /\ tried = << >>
  /\ ret = NoContext
  /\ result = NoNode
  /\ callee = "none"
  /\ cursor = 0
  /\ out = NoContext

Init == InitWith(Texts(Alphabet, MaxLen))
InitTag == InitWith(Texts(TagAlphabet, MaxTagLen))
InitBlock == InitWith(Texts(BlockAlphabet, MaxBlockLen))
InitDecl == InitWith(Texts(DeclAlphabet, MaxDeclLen))
InitLabel == InitWith(Texts(LabelAlphabet, MaxLabelLen))
InitParam == InitWith(Texts(ParamAlphabet, MaxParamLen))
InitSingle == InitWith(Texts(SingleAlphabet, MaxSingleLen))
InitName == InitWith(Texts(NameAlphabet, MaxNameLen))
InitBare == InitWith(Texts(BareAlphabet, MaxBareLen))
InitIdent == InitWith(Texts(IdentAlphabet, MaxIdentLen))
InitQuote == InitWith(Texts(QuoteAlphabet, MaxQuoteLen))
InitKV == InitWith(Texts(KVAlphabet, MaxKVLen))
InitSoft == InitWith(Texts(SoftAlphabet, MaxSoftLen))

\* the empty text and the texts that are one bracketed span: "[", an
\* interior, "]"
InitBracket ==
  InitWith({<< >>} \cup
           {<<"[">> \o s \o <<"]">> : s \in Texts(InteriorAlphabet, MaxInterior)})

\* parse(text) calls parseScenario({ text, index: 0 })
Parse ==
  /\ pc = "idle"
  /\ pc' = "scenario"
  /\ index' = 0
  /\ UNCHANGED <<text, context, contexts, tried, ret, result, callee, cursor, out>>

\* parseScenario on the empty text returns parseEmpty's context
ScenarioEmpty ==
  /\ pc = "scenario"
  /\ Len(text) = 0
  /\ ret' = parseEmpty(text, index)
  /\ pc' = "returned"
  /\ UNCHANGED <<text, index, context, contexts, tried, result, callee, cursor, out>>

\* the initializer of the for loop: the one evaluation of anyContext
LoopInit ==
  /\ pc = "scenario"
  /\ Len(text) # 0
  /\ context' = anyContext(text, index)
  /\ tried' = anyContextCalls(text, index)
  /\ contexts' = << >>
  /\ pc' = "loop"
  /\ UNCHANGED <<text, index, ret, result, callee, cursor, out>>

\* one iteration: the body pushes context, the update sets index
LoopBody ==
  /\ pc = "loop"
  /\ index < Len(text)
  /\ Len(contexts) < MaxPush
  /\ contexts' = Append(contexts, context)
  /\ index' = context.index
  /\ UNCHANGED <<text, pc, context, tried, ret, result, callee, cursor, out>>

\* the loop condition fails: parseScenario builds the root and returns
LoopExit ==
  /\ pc = "loop"
  /\ ~(index < Len(text))
  /\ ret' = IF Len(contexts) # 0
            THEN [node |-> [type |-> "scenario", raw |-> text,
                            children |-> contexts],
                  index |-> Len(text)]
            ELSE [node |-> InvalidSyntax(text, Len(text)), index |-> Len(text)]
  /\ pc' = "returned"
  /\ UNCHANGED <<text, index, context, contexts, tried, result, callee, cursor, out>>

\* parse throws on a failure node and returns any other node
ParseReturn ==
  /\ pc = "returned"
  /\ result' = IF ret.node.type = "failing-parsing" THEN InvalidSyntaxError
               ELSE IF ret.node.type = "invalid-syntax" THEN InvalidSyntaxError
               ELSE ret.node
  /\ pc' = "done"
  /\ UNCHANGED <<text, index, context, contexts, tried, ret, callee, cursor, out>>

\* the raw fields of the lines, concatenated in order
RECURSIVE ConcatRaw(_)
ConcatRaw(lines) ==
  IF Len(lines) = 0 THEN << >>
  ELSE Head(lines).node.raw \o ConcatRaw(Tail(lines))

\* parse called again, on the concatenation of the raw fields of the lines
\* of the document the first call returned; out keeps that document
ParseAgain ==
  /\ pc = "done"
  /\ callee = "none"
  /\ result.type = "scenario"
  /\ text' = ConcatRaw(result.children)
  /\ callee' = "parse"
  /\ cursor' = 0
  /\ out' = [node |-> result, index |-> 0]
  /\ pc' = "scenario"
  /\ index' = 0
  /\ context' = NoContext
  /\ contexts' = << >>
  /\ tried' = << >>
  /\ ret' = NoContext
  /\ result' = NoNode

\* a direct call of an exported recognizer at cursor c
Called(name, c, returned) ==
  /\ pc = "idle"
  /\ pc' = "called"
  /\ callee' = name
  /\ cursor' = c
  /\ out' = returned
  /\ UNCHANGED <<text, index, context, contexts, tried, ret, result>>

CallEmpty ==
  \E c \in 0..Len(text) : Called("parseEmpty", c, parseEmpty(text, c))
CallIdentifier ==
  \E c \in 0..Len(text) : Called("parseIdentifier", c, parseIdentifier(text, c))
CallQuotedString ==
  \E c \in 0..Len(text) : Called("parseQuotedString", c, parseQuotedString(text, c))
CallLineComment ==
  \E c \in 0..Len(text) : Called("parseLineComment", c, parseLineComment(text, c))
CallBlockComment ==
  \E c \in 0..Len(text) : Called("parseBlockComment", c, parseBlockComment(text, c))
CallNarratorDeclaration ==
  \E c \in 0..Len(text) :
    Called("parseNarratorDeclaration", c, parseNarratorDeclaration(text, c))
CallNarrative ==
  \E c \in 0..Len(text) : Called("parseNarrative", c, parseNarrative(text, c))
CallLabel ==
  \E c \in 0..Len(text) : Called("parseLabel", c, parseLabel(text, c))
CallSingleLineTag ==
  \E c \in 0..Len(text) : Called("parseSingleLineTag", c, parseSingleLineTag(text, c))
CallMultiLineTag ==
  \E c \in 0..Len(text) : Called("parseMultiLineTag", c, parseMultiLineTag(text, c))
CallBareText ==
  \E c \in 0..Len(text) : Called("parseBareText", c, parseBareText(text, c))
CallKVPair ==
  \E c \in 0..Len(text) : Called("parseKVPair", c, parseKVPair(text, c))
CallScenarioLine ==
  \E c \in 0..Len(text) : Called("parseScenarioLine", c, parseScenarioLine(text, c))

Next ==
  \/ Parse
  \/ ScenarioEmpty
  \/ LoopInit
  \/ LoopBody
  \/ LoopExit
  \/ ParseReturn
  \/ ParseAgain
  \/ CallEmpty
  \/ CallIdentifier
  \/ CallQuotedString
  \/ CallLineComment
  \/ CallBlockComment
  \/ CallNarratorDeclaration
  \/ CallNarrative
  \/ CallLabel
  \/ CallSingleLineTag
  \/ CallMultiLineTag
  \/ CallBareText
  \/ CallScenarioLine
  \/ CallKVPair

Spec == Init /\ [][Next]_vars
SpecTag == InitTag /\ [][Next]_vars
SpecBlock == InitBlock /\ [][Next]_vars
SpecDecl == InitDecl /\ [][Next]_vars
SpecLabel == InitLabel /\ [][Next]_vars
SpecParam == InitParam /\ [][Next]_vars
SpecSingle == InitSingle /\ [][Next]_vars
SpecBracket == InitBracket /\ [][Next]_vars
SpecName == InitName /\ [][Next]_vars
SpecBare == InitBare /\ [][Next]_vars
SpecIdent == InitIdent /\ [][Next]_vars
SpecQuote == InitQuote /\ [][Next]_vars
SpecKV == InitKV /\ [][Next]_vars
SpecSoft == InitSoft /\ [][Next]_vars

\* parseScenario and parse are synchronous code: once the loop is entered, an
\* iteration, the exit of the loop or the return of parse that can be taken is
FairSpec == Init /\ [][Next]_vars /\ WF_vars(LoopBody \/ LoopExit \/ ParseReturn)

----------------------------------------------------------------------------
(* Vocabulary of the properties.                                           *)

\* r occurs in t as a contiguous run of characters
IsSubstring(r, t) ==
  \E i \in 0..Len(t) : Slice(t, i, i + Len(r)) = r /\ i + Len(r) <= Len(t)

\* the cursor at which the k-th line of a document has to be recognized
CursorOfLine(lines, k) == IF k = 1 THEN 0 ELSE lines[k - 1].index

\* the line beginning at cursor c starts with none of the sigils
NoSigilAt(t, c) ==
  LET line == FirstLine(SliceFrom(t, c))
  IN  \A sigil \in {<<";">>, <<"/", "*">>, <<"#">>, <<"*">>, <<"@">>, <<"[">>} :
        ~StartsWith(line, sigil)

IsFailureNode(n) == n.type \in {"failing-parsing", "invalid-syntax"}

\* the position of the first "*/" that begins after the opener "/*", -1 if none
ClosingAfterOpener(s) ==
  LET k == IndexOf(SliceFrom(s, 2), <<"*", "/">>)
  IN  IF k < 0 THEN -1 ELSE k + 2

\* the line beginning at cursor c: the characters from c up to, not
\* including, the next line terminator
LineAt(t, c) ==
  LET ends == {j \in c..Len(t) : j = Len(t) \/ t[j + 1] = NL}
      e == CHOOSE j \in ends : \A k \in ends : j <= k
  IN  SubSeq(t, c + 1, e)

\* the number of occurrences of the character ch in s
CountOf(s, ch) == Cardinality({i \in 1..Len(s) : s[i] = ch})

\* the 1-based position of the first occurrence of ch in s, which has one
FirstAt(s, ch) ==
  CHOOSE i \in 1..Len(s) : s[i] = ch /\ \A j \in 1..(i - 1) : s[j] # ch

\* the line is "#" followed by nothing but whitespace
IsNarrativeMarker(line) ==
  /\ line # << >>
  /\ line[1] = "#"
  /\ \A i \in 2..Len(line) : line[i] \in Whitespace

\* s is a non-empty run of letters and underscores
IsName(s) == s # << >> /\ \A i \in 1..Len(s) : s[i] \in Letter \cup {"_"}

\* the longest prefix of s made of characters of the class
LeadingRun(s, class) ==
  LET runs == {n \in 0..Len(s) : \A i \in 1..n : s[i] \in class}
  IN  SubSeq(s, 1, CHOOSE n \in runs : \A m \in runs : m <= n)

\* the line is "*Name" or "*Name|Alternate"
IsLabelLine(line) ==
  /\ line # << >>
  /\ line[1] = "*"
  /\ LET rest == Tail(line)
     IN  \/ IsName(rest)
         \/ \E k \in 1..Len(rest) :
              /\ rest[k] = "|"
              /\ IsName(SubSeq(rest, 1, k - 1))
              /\ IsName(SubSeq(rest, k + 1, Len(rest)))

\* a parameter token: a bare name, or key=value with a name and a value
IsParamToken(tok) ==
  \/ IsName(tok)
  \/ /\ CountOf(tok, "=") = 1
     /\ IsName(SubSeq(tok, 1, FirstAt(tok, "=") - 1))
     /\ FirstAt(tok, "=") < Len(tok)

\* the entry of the parameters map a token stands for: the token -> true
\* for a bare token, key -> "value" for key=value
ParameterOf(tok) ==
  IF CountOf(tok, "=") = 0
  THEN [key |-> tok, value |-> [type |-> "true"]]
  ELSE [key |-> SubSeq(tok, 1, FirstAt(tok, "=") - 1),
        value |-> [type |-> "string",
                   string |-> SubSeq(tok, FirstAt(tok, "=") + 1, Len(tok))]]

ExpectedParameters(tokens) == {ParameterOf(tokens[i]) : i \in 1..Len(tokens)}

\* the line is the sigil, a tag name and parameter tokens, joined by one space
IsSingleLineTagLine(line) ==
  /\ line # << >>
  /\ line[1] = "@"
  /\ LET parts == Split(Tail(line), " ")
     IN  /\ IsName(parts[1])
         /\ \A i \in 2..Len(parts) : IsParamToken(parts[i])

\* s is an identifier: a letter or underscore, then letters, digits, underscores
IsIdentifier(s) ==
  /\ s # << >>
  /\ s[1] \in Letter \cup {"_"}
  /\ \A i \in 1..Len(s) : s[i] \in Letter \cup Digit \cup {"_"}

\* the 1-based position of the first "]" of t, 0 if there is none
FirstClosing(t) ==
  LET hits == {i \in 1..Len(t) : t[i] = "]"}
  IN  IF hits = {} THEN 0 ELSE CHOOSE i \in hits : \A j \in hits : i <= j

\* the interior of a text "[...]...": the characters between the opening
\* bracket and the first closing bracket
Interior(t) == SubSeq(t, 2, FirstClosing(t) - 1)

\* the tokens of s: the non-empty pieces between spaces and line breaks
TokensOf(s) == SelectSeq(Split(ReplaceAllNL(s), " "), LAMBDA tok : tok # << >>)

\* the text is one bracketed tag: "[", a tag name and parameter tokens
\* separated by spaces or line breaks, "]"
IsMultiLineTagText(t) ==
  /\ Len(t) >= 2
  /\ t[1] = "["
  /\ FirstClosing(t) = Len(t)
  /\ LET tokens == TokensOf(Interior(t))
     IN  /\ tokens # << >>
         /\ IsIdentifier(tokens[1])
         /\ \A i \in 2..Len(tokens) : IsParamToken(tokens[i])

\* a parameter of the bracketed tag is split over three physical lines: a
\* line that is "=" alone, the key ending the line before it, the value
\* beginning the line after it, and the tag name on an earlier line
HasSplitKVPair(t) ==
  /\ Len(t) >= 2
  /\ t[1] = "["
  /\ FirstClosing(t) = Len(t)
  /\ LET lines == Split(Interior(t), NL)
     IN  \E k \in 3..(Len(lines) - 1) :
           /\ Trim(lines[k]) = <<"=">>
           /\ TokensOf(lines[k - 1]) # << >>
           /\ IsName(TokensOf(lines[k - 1])[Len(TokensOf(lines[k - 1]))])
           /\ TokensOf(lines[k + 1]) # << >>
           /\ CountOf(TokensOf(lines[k + 1])[1], "=") = 0
           /\ \E j \in 1..(k - 2) :
                TokensOf(lines[j]) # << >> /\ IsIdentifier(TokensOf(lines[j])[1])

\* the recognizer of the given name applied to the text t at cursor i
Recognize(name, t, i) ==
  CASE name = "parseEmpty" -> parseEmpty(t, i)
    [] name = "parseIdentifier" -> parseIdentifier(t, i)
    [] name = "parseQuotedString" -> parseQuotedString(t, i)
    [] name = "parseLineComment" -> parseLineComment(t, i)
    [] name = "parseBlockComment" -> parseBlockComment(t, i)
    [] name = "parseNarratorDeclaration" -> parseNarratorDeclaration(t, i)
    [] name = "parseNarrative" -> parseNarrative(t, i)
    [] name = "parseLabel" -> parseLabel(t, i)
    [] name = "parseSingleLineTag" -> parseSingleLineTag(t, i)
    [] name = "parseMultiLineTag" -> parseMultiLineTag(t, i)
    [] name = "parseBareText" -> parseBareText(t, i)
    [] name = "parseKVPair" -> parseKVPair(t, i)
    [] name = "parseScenarioLine" -> parseScenarioLine(t, i)

----------------------------------------------------------------------------
(* Properties.                                                             *)

\* C1: when a recognizer invoked during parse(text) returned a HardFail, or
\* the position matched no alternative, parse fails with InvalidSyntaxError
\* and returns no document, and no alternative is tried after the HardFail.
C1_HardFailAbortsParse ==
  (pc = "done" /\ Len(text) > 0) =>
    /\ ((\E k \in 1..Len(tried) : IsHardFail(tried[k])) \/ ~IsSuccess(context))
         => result = InvalidSyntaxError
    /\ \A k \in 1..Len(tried) : IsHardFail(tried[k]) => k = Len(tried)

\* C2: the composer loop of parseScenario, once entered, terminates and
\* parse returns a document or fails.
C2_ComposerTerminates == (pc = "loop") ~> (pc = "done")

\* C3: the k-th line the composer holds is the node the alternation
\* recognizes at the cursor returned by the (k-1)-th recognition (the first
\* at cursor 0), and no line appears twice.
C3_OneNodePerConstruct ==
  \A k \in 1..Len(contexts) :
    /\ contexts[k] = anyContext(text, CursorOfLine(contexts, k))
    /\ \A j \in 1..(k - 1) : contexts[j] # contexts[k]

\* C4: for a non-empty input, parse returns a document, and the node of
\* every line that starts with none of the sigils is a bare-text node.
C4_BareTextFallback ==
  (pc = "done" /\ Len(text) > 0 /\ NoSigilAt(text, 0)) =>
    /\ result.type = "scenario"
    /\ \A k \in 1..Len(result.children) :
         NoSigilAt(text, CursorOfLine(result.children, k))
           => result.children[k].node.type = "bare-text"

\* C5: a recognizer that returns a successful node returns a cursor strictly
\* greater than the one it was given; Empty is the only zero-width success.
C5_SuccessAdvances ==
  (pc = "called" /\ IsSuccess(out) /\ out.node.type # "empty")
    => out.index > cursor

\* C6: the raw fields of the lines of a returned document, concatenated in
\* order, are the input text.  Stated for the documents all of whose lines
\* are recognized nodes, so that the failure nodes of C8 play no part.
C6_RawReconstructsInput ==
  (/\ pc = "done"
   /\ result.type = "scenario"
   /\ \A k \in 1..Len(result.children) : ~IsFailureNode(result.children[k].node))
    => ConcatRaw(result.children) = text

\* C7: the raw field of a successful node is a contiguous substring of the
\* input text.
C7_RawIsSubstring ==
  (pc = "called" /\ IsSuccess(out)) => IsSubstring(out.node.raw, text)

\* C8: no line of a returned document is a SoftFail or a HardFail value.
C8_NoFailureNodeInDocument ==
  (pc = "done" /\ result.type = "scenario")
    => \A k \in 1..Len(result.children) :
         ~IsFailureNode(result.children[k].node)

\* C9: parse("") returns the Empty node without failing, and parseEmpty
\* returns Empty exactly when the text is empty and the cursor is 0, a
\* SoftFail otherwise.
C9_EmptyInput ==
  /\ (pc = "done" /\ text = << >>) => result = [type |-> "empty", raw |-> << >>]
  /\ (pc = "called" /\ callee = "parseEmpty") =>
       IF text = << >> /\ cursor = 0
       THEN out.node = [type |-> "empty", raw |-> << >>]
       ELSE IsSoftFail(out)

C9_Witness ==
  /\ pc = "done"
  /\ text = << >>
  /\ ret = parseEmpty(text, 0)
  /\ result.type = "empty"

\* C10: parseBlockComment returns a SoftFail when the text at the cursor
\* does not start with "/*", a HardFail when no "*/" follows the opener, a
\* HardFail when the span from "/*" through the closing "*/" has no line
\* break, and a block-comment node otherwise.
C10_BlockCommentOutcome ==
  (pc = "called" /\ callee = "parseBlockComment") =>
    LET s == SliceFrom(text, cursor)
        close == ClosingAfterOpener(s)
    IN  IF ~StartsWith(s, <<"/", "*">>) THEN IsSoftFail(out)
        ELSE IF close < 0 THEN IsHardFail(out)
        ELSE IF ~Includes(Slice(s, 0, close + 2), <<NL>>) THEN IsHardFail(out)
        ELSE out.node.type = "block-comment"

C12_NarratorDeclaration ==
  (pc = "called" /\ callee = "parseNarratorDeclaration") =>
    LET line == LineAt(text, cursor)
        rest == Tail(line)
        colons == CountOf(rest, ":")
        name == SubSeq(rest, 1, FirstAt(rest, ":") - 1)
        emotion == SubSeq(rest, FirstAt(rest, ":") + 1, Len(rest))
    IN  IF line = << >> \/ line[1] # "#" THEN IsSoftFail(out)
        ELSE IF colons = 0 /\ rest # << >>
        THEN /\ out.node.type = "narrator-declaration"
             /\ out.node.narrative = rest
             /\ out.node.emotion = Undefined
        ELSE IF colons = 1 /\ name # << >> /\ emotion # << >>
        THEN /\ out.node.type = "narrator-declaration"
             /\ out.node.narrative = name
             /\ out.node.emotion = emotion
        ELSE IsHardFail(out)

C12_Witness ==
  /\ pc = "called"
  /\ callee = "parseNarratorDeclaration"
  /\ cursor > 0
  /\ out.node.type = "narrator-declaration"
  /\ out.node.emotion # Undefined

\* C13: parseScenarioLine returns a narrative node exactly when the line at
\* the cursor is "#" followed only by whitespace; such a line therefore
\* yields neither a narrator declaration nor a HardFail.
C13_NarrativeMarker ==
  (pc = "called" /\ callee = "parseScenarioLine") =>
    ((out.node.type = "narrative") <=> IsNarrativeMarker(LineAt(text, cursor)))

C13_Witness ==
  /\ pc = "called"
  /\ callee = "parseScenarioLine"
  /\ cursor > 0
  /\ out.node.type = "narrative"
  /\ Len(out.node.raw) > 1

\* C14: for a line starting with "*", parseLabel returns a label node only
\* when the whole line is "*Name" or "*Name|Alternate", and a HardFail for
\* every other such line.
C14_LabelWholeLine ==
  (/\ pc = "called"
   /\ callee = "parseLabel"
   /\ StartsWith(LineAt(text, cursor), <<"*">>))
    => /\ out.node.type = "label" => IsLabelLine(LineAt(text, cursor))
       /\ ~IsLabelLine(LineAt(text, cursor)) => IsHardFail(out)

\* C15: on a line "@Tag p1 p2 ...", parseSingleLineTag returns a
\* single-line-tag node whose parameters map has the entry t -> true for
\* each bare token t and key -> "value" for each token key=value.
C15_SingleLineTagParameters ==
  (/\ pc = "called"
   /\ callee = "parseSingleLineTag"
   /\ cursor = 0
   /\ IsSingleLineTagLine(LineAt(text, 0)))
    => /\ out.node.type = "single-line-tag"
       /\ out.node.parameters =
            ExpectedParameters(Tail(Split(Tail(LineAt(text, 0)), " ")))

\* C16: parseSingleLineTag at cursor 0 returns a SoftFail when the first
\* line does not start with "@", a HardFail when the first line is "@" alone
\* or the character after "@" is neither a letter nor an underscore, and
\* otherwise a single-line-tag node whose tag is the leading run of letters
\* and underscores.
C16_SingleLineTagAtStart ==
  (pc = "called" /\ callee = "parseSingleLineTag" /\ cursor = 0) =>
    LET line == LineAt(text, 0)
    IN  IF line = << >> \/ line[1] # "@" THEN IsSoftFail(out)
        ELSE IF Len(line) = 1 \/ line[2] \notin Letter \cup {"_"}
        THEN IsHardFail(out)
        ELSE /\ out.node.type = "single-line-tag"
             /\ out.node.tag = LeadingRun(Tail(line), Letter \cup {"_"})

C16_Witness ==
  /\ pc = "called"
  /\ callee = "parseSingleLineTag"
  /\ cursor = 0
  /\ out.node.type = "single-line-tag"
  /\ Len(out.node.tag) = 2
  /\ Len(LineAt(text, 0)) = 4

\* C17: on a text "[Tag p1 p2 ...]" whose tokens are separated by spaces or
\* line breaks, parseMultiLineTag returns a multi-line-tag node whose
\* parameters map has the entry t -> true for each bare token t and
\* key -> "value" for each token key=value, and is empty without tokens.
C17_MultiLineTagParameters ==
  (/\ pc = "called"
   /\ callee = "parseMultiLineTag"
   /\ cursor = 0
   /\ IsMultiLineTagText(text))
    => /\ out.node.type = "multi-line-tag"
       /\ out.node.parameters = ExpectedParameters(Tail(TokensOf(Interior(text))))

\* C18: parseMultiLineTag returns a HardFail for a bracketed tag in which
\* the key, the "=" and the value of a parameter lie on different physical
\* lines.
C18_SplitKVPairRejected ==
  (/\ pc = "called"
   /\ callee = "parseMultiLineTag"
   /\ cursor = 0
   /\ HasSplitKVPair(text))
    => IsHardFail(out)

\* C19: parseMultiLineTag at cursor 0 returns a SoftFail when the text does
\* not start with "[" or has no "]"; a HardFail when the interior up to the
\* first "]" is empty or all whitespace, or holds no position at which an
\* identifier starts; otherwise a multi-line-tag node whose tag is the
\* identifier at the first such position.
C19_MultiLineTagAtStart ==
  (pc = "called" /\ callee = "parseMultiLineTag" /\ cursor = 0) =>
    IF text = << >> \/ text[1] # "[" \/ FirstClosing(text) = 0
    THEN IsSoftFail(out)
    ELSE LET interior == Interior(text)
             starts == {i \in 1..Len(interior) : interior[i] \in Letter \cup {"_"}}
             at == CHOOSE i \in starts : \A j \in starts : i <= j
         IN  IF \A i \in 1..Len(interior) : interior[i] \in Whitespace
             THEN IsHardFail(out)
             ELSE IF starts = {} THEN IsHardFail(out)
             ELSE /\ out.node.type = "multi-line-tag"
                  /\ out.node.tag =
                       LeadingRun(SubSeq(interior, at, Len(interior)),
                                  Letter \cup Digit \cup {"_"})

C19_Witness ==
  /\ pc = "called"
  /\ callee = "parseMultiLineTag"
  /\ cursor = 0
  /\ out.node.type = "multi-line-tag"
  /\ text[2] \notin Letter \cup {"_"}

\* C20: parseBareText always returns a bare-text node, whose text is taken
\* from the line at the cursor only: the line without its first character
\* when that is "_", the line trimmed of leading and trailing whitespace
\* otherwise.
C20_BareTextOfLine ==
  (pc = "called" /\ callee = "parseBareText") =>
    LET line == LineAt(text, cursor)
    IN  /\ out.node.type = "bare-text"
        /\ out.node.raw = IF line # << >> /\ line[1] = "_"
                          THEN Tail(line)
                          ELSE Trim(line)

\* C21: parseIdentifier returns, when the character at the cursor is a
\* letter or an underscore, an identifier node whose value and raw are the
\* longest run of letters, digits and underscores from the cursor, with the
\* cursor advanced by its length; otherwise (also at the end of the input)
\* a HardFail with the cursor unchanged.
C21_Identifier ==
  (pc = "called" /\ callee = "parseIdentifier") =>
    LET rest == SubSeq(text, cursor + 1, Len(text))
        name == LeadingRun(rest, Letter \cup Digit \cup {"_"})
    IN  IF rest # << >> /\ rest[1] \in Letter \cup {"_"}
        THEN /\ out.node.type = "identifier"
             /\ out.node.value = name
             /\ out.node.raw = name
             /\ out.index = cursor + Len(name)
        ELSE IsHardFail(out) /\ out.index = cursor

C21_Witness ==
  /\ pc = "called"
  /\ callee = "parseIdentifier"
  /\ cursor > 0
  /\ out.node.type = "identifier"
  /\ Len(out.node.value) = 2
  /\ out.index < Len(text)

C23_EmptyQuotedString ==
  (/\ pc = "called"
   /\ callee = "parseQuotedString"
   /\ cursor + 2 <= Len(text)
   /\ text[cursor + 1] \in {"'", "\""}
   /\ text[cursor + 2] = text[cursor + 1])
    => /\ out.node.type = "quoted-string"
       /\ out.node.raw = <<text[cursor + 1], text[cursor + 1]>>
       /\ out.index = cursor + 2
       /\ "value" \in DOMAIN out.node
       /\ out.node.value = << >>

\* C24: when parse returns a document, parse of the concatenation of the raw
\* fields of its lines returns a document with the same lines.  Stated for
\* the documents all of whose lines are recognized nodes.
C24_ParseIdempotent ==
  (/\ pc = "done"
   /\ callee = "parse"
   /\ \A k \in 1..Len(out.node.children) :
        ~IsFailureNode(out.node.children[k].node))
    => /\ result.type = "scenario"
       /\ result.children = out.node.children

\* C25: parseBlockComment takes as closing delimiter the first "*/" that
\* begins after the opener "/*"; when the span through it holds a line
\* break, the result is a block-comment node whose raw is that span and
\* whose body is the text strictly between the two delimiters.
C25_BlockCommentCloser ==
  (pc = "called" /\ callee = "parseBlockComment") =>
    LET s == SliceFrom(text, cursor)
        close == ClosingAfterOpener(s)
    IN  (/\ StartsWith(s, <<"/", "*">>)
         /\ close >= 0
         /\ Includes(Slice(s, 0, close + 2), <<NL>>))
          => /\ out.node.type = "block-comment"
             /\ out.node.raw = Slice(s, 0, close + 2)
             /\ out.node.value = Slice(s, 2, close)

\* C26: when parseMultiLineTag, called at the opening bracket of a span,
\* returns a multi-line-tag node, the cursor it returns is just past the
\* closing "]" of the span.
C26_MultiLineTagCursor ==
  (/\ pc = "called"
   /\ callee = "parseMultiLineTag"
   /\ cursor = 0
   /\ out.node.type = "multi-line-tag")
    => out.index = FirstClosing(text)

\* C27: parseKVPair returns a SoftFail on a text without "="; on a text
\* key=value whose value has neither a space nor a quote, a key-value-pair
\* node with the text before the first "=" as key and the text after it as
\* value; on key="quoted value", the value without its quotes.
C27_KVPair ==
  (pc = "called" /\ callee = "parseKVPair" /\ cursor = 0) =>
    IF CountOf(text, "=") = 0 THEN IsSoftFail(out)
    ELSE LET key == SubSeq(text, 1, FirstAt(text, "=") - 1)
             after == SubSeq(text, FirstAt(text, "=") + 1, Len(text))
         IN  /\ (/\ IsName(key)
                 /\ after # << >>
                 /\ CountOf(after, "=") = 0
                 /\ CountOf(after, " ") = 0
                 /\ CountOf(after, "\"") = 0)
                  => /\ out.node.type = "key-value-pair"
                     /\ out.node.key = key
                     /\ out.node.value = after
             /\ (/\ IsName(key)
                 /\ Len(after) >= 2
                 /\ after[1] = "\""
                 /\ after[Len(after)] = "\""
                 /\ CountOf(after, "\"") = 2)
                  => /\ out.node.type = "key-value-pair"
                     /\ out.node.key = key
                     /\ out.node.value = SubSeq(after, 2, Len(after) - 1)

\* C28: the result of a recognizer on a text at cursor i is its result on
\* the suffix of the text from i at cursor 0, with the returned cursor
\* shifted by i.  Stated for the four recognizers parseSingleLineTag,
\* parseMultiLineTag, parseBareText and parseKVPair, where they return.
C28_PositionIndependence ==
  (/\ pc = "called"
   /\ callee \in {"parseSingleLineTag", "parseMultiLineTag",
                  "parseBareText", "parseKVPair"}
   /\ ~IsThrown(out)
   /\ ~IsThrown(Recognize(callee, SliceFrom(text, cursor), 0)))
    => /\ out.node = Recognize(callee, SliceFrom(text, cursor), 0).node
       /\ out.index = Recognize(callee, SliceFrom(text, cursor), 0).index + cursor

\* C29: a recognizer called at a cursor of 0..Len(text) returns a context
\* and raises no runtime exception.
C29_RecognizersTotal == pc = "called" => ~IsThrown(out)

\* C30: when a recognizer returns a SoftFail, the cursor it returns is the
\* cursor it was given.
C30_SoftFailConsumesNothing ==
  (pc = "called" /\ IsSoftFail(out)) => out.index = cursor

C30_Witness ==
  /\ pc = "called"
  /\ callee = "parseQuotedString"
  /\ cursor > 0
  /\ cursor < Len(text)
  /\ text[cursor + 1] = "'"
  /\ IsSoftFail(out)
  /\ out.index = cursor

====
